---- MODULE Spec2Model ----
(***************************************************************************)
(* A model of streamlit_app.py: the field-name pipeline (normalize_col,    *)
(* base_homogenize, apply_synonyms), the report rationalisation scorer,    *)
(* the workbook writer and the analysis run with its session state.        *)
(*                                                                         *)
(* Text is a sequence of one-character strings.  A regular expression is a *)
(* sequence of items (records); its Python pattern is the concatenation of *)
(* the items' renderings:                                                  *)
(*   k = "lit"     the character c, quantified by q ("1", "?" or "+")      *)
(*   k = "nalnum"  the class [^a-z0-9], quantified by q                    *)
(*   k = "grp"     the group (?:body), body literal text, quantified by q  *)
(*   k = "bol"     ^        k = "eol"  $        k = "wb"  \b               *)
(*   k = "open"    a lone (            k = "bracket"  a lone [             *)
(* A replacement template is a sequence of literal characters and of the   *)
(* token "\\1" (a group reference).                                        *)
(***************************************************************************)
EXTENDS Integers, Sequences, FiniteSets, TLC

VARIABLES
    col_orig,       \* fields: the raw header (col_orig, line 306)
    col_norm,       \* fields: normalize_col(col_orig) (line 307)
    col_base,       \* fields: base_homogenize(col_norm) (line 308)
    col_renorm,     \* fields: normalize_col applied to col_norm once more
    fstage,         \* fields: how far the header has been processed
    homogenized,    \* synonyms: the key given to apply_synonyms
    synonyms_df,    \* synonyms: the rule table given to apply_synonyms
    col_homo,       \* synonyms: what apply_synonyms returned (line 309)
    sstage,         \* synonyms: whether apply_synonyms has been called
    field_df,       \* scorer: the field occurrences given to the scorer
    rational_df,    \* scorer: what build_report_rationalization returned
    rstage,         \* scorer: whether the scorer has been called
    dfs_by_sheetname,   \* writer: the tables given to df_to_excel_bytes
    workbook,       \* writer: the sheets of the workbook written
    written,        \* writer: the sheet names passed to to_excel, in order
    xstage,         \* writer: whether df_to_excel_bytes has been called
    session_state,  \* session: st.session_state, a function of the keys it holds
    pc,             \* session: the section of the script the run is at
    outcome,        \* session: how the last run ended
    source_system,  \* session: the text input of the run (line 194)
    uploaded_files, \* session: the files of the run (line 196)
    read_fail,      \* session: where the reads of the run raise, per loop and file
    state_before,   \* session: st.session_state as the run found it
    profile_df,     \* session: profile_df (line 291)
    defs_reset,     \* session: whether the run took the branch of lines 362-371
    defs_shown,     \* session: the table given to the definitions editor (line 374)
    edited_definitions  \* session: what the definitions editor returned (line 373)

fieldVars == <<col_orig, col_norm, col_base, col_renorm, fstage>>
synVars == <<homogenized, synonyms_df, col_homo, sstage>>
ratVars == <<field_df, rational_df, rstage>>
xlsVars == <<dfs_by_sheetname, workbook, written, xstage>>
runVars == <<session_state, pc, outcome, source_system, uploaded_files, read_fail,
             state_before, profile_df, defs_reset, defs_shown, edited_definitions>>

\* The value of a variable that holds nothing yet.
Unset == <<"(unset)">>

\* The variables of the analysis run in the specifications of one function.
NoRun ==
    /\ session_state = Unset /\ pc = "off" /\ outcome = "none"
    /\ source_system = Unset /\ uploaded_files = Unset /\ read_fail = Unset
    /\ state_before = Unset /\ profile_df = Unset /\ defs_reset = FALSE
    /\ defs_shown = Unset /\ edited_definitions = Unset

----------------------------------------------------------------------------
(* Characters *)

LowerLetters ==
    {"a","b","c","d","e","f","g","h","i","j","k","l","m",
     "n","o","p","q","r","s","t","u","v","w","x","y","z"}

Digits == {"0","1","2","3","4","5","6","7","8","9"}

\* str.lower on the upper-case letters the headers of the model use.
UpperToLower == [c \in {"A","B","N","P"} |->
    CASE c = "A" -> "a" [] c = "B" -> "b" [] c = "N" -> "n" [] c = "P" -> "p"]

LowerChar(c) == IF c \in DOMAIN UpperToLower THEN UpperToLower[c] ELSE c

\* str.lower
Lower(s) == [i \in 1..Len(s) |-> LowerChar(s[i])]

\* The characters str.strip() removes.
Whitespace == {" "}

\* IsWordChar with the underscore taken for a separator.
IsWordChar_NoUnderscore(c) == c \in LowerLetters \cup DOMAIN UpperToLower \cup Digits

\* \w of the re module: letters, digits and the underscore.
IsWordChar(c) == c \in LowerLetters \cup DOMAIN UpperToLower \cup Digits \cup {"_"}

\* The characters [a-z0-9] matches.
IsLowerAlnum(c) == c \in LowerLetters \cup Digits

RECURSIVE LStrip(_, _)
\* str.lstrip(chars)
LStrip(s, chars) ==
    IF s # <<>> /\ Head(s) \in chars THEN LStrip(Tail(s), chars) ELSE s

RECURSIVE RStrip(_, _)
\* str.rstrip(chars)
RStrip(s, chars) ==
    IF s # <<>> /\ s[Len(s)] \in chars
    THEN RStrip(SubSeq(s, 1, Len(s) - 1), chars) ELSE s

\* str.strip(chars)
Strip(s, chars) == RStrip(LStrip(s, chars), chars)

----------------------------------------------------------------------------
(* Regular expressions: re.sub *)

Lit(c) == [k |-> "lit", c |-> c, body |-> <<>>, q |-> "1"]
LitQ(c, q) == [k |-> "lit", c |-> c, body |-> <<>>, q |-> q]
NotAlnumPlus == [k |-> "nalnum", c |-> "", body |-> <<>>, q |-> "+"]
Grp(body, q) == [k |-> "grp", c |-> "", body |-> body, q |-> q]
Bol == [k |-> "bol", c |-> "", body |-> <<>>, q |-> "1"]
Eol == [k |-> "eol", c |-> "", body |-> <<>>, q |-> "1"]
WordB == [k |-> "wb", c |-> "", body |-> <<>>, q |-> "1"]
OpenParen == [k |-> "open", c |-> "", body |-> <<>>, q |-> "1"]
OpenBracket == [k |-> "bracket", c |-> "", body |-> <<>>, q |-> "1"]
\* A quantifier with nothing before it to repeat.
Repeat(q) == [k |-> "repeat", c |-> "", body |-> <<>>, q |-> q]

\* The pattern of a literal text, as the one item (?:text), which matches
\* exactly what text matches.
Lits(text) == <<Grp(text, "1")>>

\* re.compile raises re.error: a parenthesis or a bracket that is never
\* closed, or a quantifier with nothing to repeat.
CompileRaises(pat) == \E i \in 1..Len(pat) : pat[i].k \in {"open", "bracket", "repeat"}

\* The template compiler raises re.error: a reference to a group the pattern
\* does not have (no pattern of the model has a capturing group).
TemplateRaises(repl) == \E i \in 1..Len(repl) : repl[i] = "\\1"

\* \b at position pos (1-based, between s[pos-1] and s[pos]).
AtWordBoundary(s, pos) ==
    LET before == pos > 1 /\ IsWordChar(s[pos - 1])
        after  == pos <= Len(s) /\ IsWordChar(s[pos])
    IN  before # after

\* Whether one character matches a single-character item.
CharMatches(item, c) ==
    CASE item.k = "lit"    -> c = item.c
      [] item.k = "nalnum" -> ~IsLowerAlnum(c)
      [] OTHER             -> FALSE

RECURSIVE RunLen(_, _, _)
\* The length of the longest run of characters matching item from pos on.
RunLen(item, s, pos) ==
    IF pos <= Len(s) /\ CharMatches(item, s[pos])
    THEN 1 + RunLen(item, s, pos + 1) ELSE 0

\* Whether the literal text body stands at pos.
TextAt(body, s, pos) ==
    /\ pos + Len(body) - 1 <= Len(s)
    /\ \A j \in 1..Len(body) : s[pos + j - 1] = body[j]

RECURSIVE MatchEnds(_, _, _, _)
RECURSIVE RepeatEnds(_, _, _, _, _)

\* The ends, in the order the backtracking matcher tries them, of the matches
\* of pat[i..] that start at pos after n repetitions of a "+" item, n counting
\* down (greedy).
RepeatEnds(pat, i, s, pos, n) ==
    IF n = 0 THEN <<>>
    ELSE MatchEnds(pat, i + 1, s, pos + n) \o RepeatEnds(pat, i, s, pos, n - 1)

\* The ends (the position after the last matched character), in the order the
\* backtracking matcher tries them, of the matches of pat[i..] starting at pos.
MatchEnds(pat, i, s, pos) ==
    IF i > Len(pat) THEN <<pos>>
    ELSE LET item == pat[i]
             rest(p) == MatchEnds(pat, i + 1, s, p)
         IN CASE item.k = "bol" -> IF pos = 1 THEN rest(pos) ELSE <<>>
              [] item.k = "eol" -> IF pos = Len(s) + 1 THEN rest(pos) ELSE <<>>
              [] item.k = "wb"  -> IF AtWordBoundary(s, pos) THEN rest(pos) ELSE <<>>
              [] item.k \in {"lit", "nalnum"} ->
                    LET one == pos <= Len(s) /\ CharMatches(item, s[pos])
                    IN  IF item.q = "1" THEN (IF one THEN rest(pos + 1) ELSE <<>>)
                        ELSE IF item.q = "?"
                        THEN (IF one THEN rest(pos + 1) ELSE <<>>) \o rest(pos)
                        ELSE RepeatEnds(pat, i, s, pos, RunLen(item, s, pos))
              [] item.k = "grp" ->
                    LET here == TextAt(item.body, s, pos)
                        took == IF here THEN rest(pos + Len(item.body)) ELSE <<>>
                    IN IF item.q = "?" THEN took \o rest(pos) ELSE took
              [] OTHER -> <<>>

\* The end of the match the matcher reports at start position pos: the first
\* in its order, an empty match being refused when must_advance is set.
MatchAt(pat, s, pos, must_advance) ==
    LET ends == MatchEnds(pat, 1, s, pos)
        ok == SelectSeq(ends, LAMBDA e : ~(must_advance /\ e = pos))
    IN  IF ok = <<>> THEN 0 ELSE Head(ok)

RECURSIVE Search(_, _, _, _, _)
\* pattern.search from `from` on: <<start, end>> of the leftmost match, or
\* <<0, 0>>.  must_advance applies at the first position only.
Search(pat, s, pos, from, must_advance) ==
    IF pos > Len(s) + 1 THEN <<0, 0>>
    ELSE LET e == MatchAt(pat, s, pos, must_advance /\ pos = from)
         IN  IF e # 0 THEN <<pos, e>>
             ELSE Search(pat, s, pos + 1, from, must_advance)

RECURSIVE SubFrom(_, _, _, _, _)
\* The loop of pattern.sub: the text from position i on with every match
\* replaced, the search resuming at i.
SubFrom(pat, repl, s, i, must_advance) ==
    LET m == Search(pat, s, i, i, must_advance)
    IN  IF m[1] = 0 THEN SubSeq(s, i, Len(s))
        ELSE SubSeq(s, i, m[1] - 1) \o repl
                 \o SubFrom(pat, repl, s, m[2], m[2] = m[1])

\* re.sub(pat, repl, s) for a pattern and a template that compile.
ReSub(pat, repl, s) == SubFrom(pat, repl, s, 1, FALSE)

\* re.fullmatch(pat, s) is not None
FullMatch(pat, s) ==
    \E j \in 1..Len(MatchEnds(pat, 1, s, 1)) :
        MatchEnds(pat, 1, s, 1)[j] = Len(s) + 1

----------------------------------------------------------------------------
(* Helpers of the pipeline *)

Underscores == <<LitQ("_", "+")>>

\* re.sub(r"_+", "_", s).strip("_")   (lines 14-15, 40, 69)
CollapseUnderscores(s) == Strip(ReSub(Underscores, <<"_">>, s), {"_"})

\* normalize_col without the final strip("_").
normalize_col_NoStrip(name) ==
    LET s1 == Lower(Strip(name, Whitespace))
        s2 == ReSub(<<NotAlnumPlus>>, <<"_">>, s1)
    IN  ReSub(Underscores, <<"_">>, s2)

\* normalize_col  (lines 11-15)
normalize_col(name) ==
    LET s1 == Lower(Strip(name, Whitespace))
        s2 == ReSub(<<NotAlnumPlus>>, <<"_">>, s1)
        s3 == ReSub(Underscores, <<"_">>, s2)
    IN  Strip(s3, {"_"})

\* The substitutions of base_homogenize, in the order it applies them
\* (lines 52-67): <<pattern, replacement>>.
BaseRules == <<
    \* \bpol(?:icy)?_?no\b -> policy_number
    <<(<<WordB>> \o Lits(<<"p","o","l">>) \o <<Grp(<<"i","c","y">>, "?"), LitQ("_", "?")>>
          \o Lits(<<"n","o">>) \o <<WordB>>),
      <<"p","o","l","i","c","y","_","n","u","m","b","e","r">>>>,
    \* \bpolicy_?number\b -> policy_number
    <<(<<WordB>> \o Lits(<<"p","o","l","i","c","y">>) \o <<LitQ("_", "?")>>
          \o Lits(<<"n","u","m","b","e","r">>) \o <<WordB>>),
      <<"p","o","l","i","c","y","_","n","u","m","b","e","r">>>>,
    \* \bclaim_?no\b -> claim_number
    <<(<<WordB>> \o Lits(<<"c","l","a","i","m">>) \o <<LitQ("_", "?")>>
          \o Lits(<<"n","o">>) \o <<WordB>>),
      <<"c","l","a","i","m","_","n","u","m","b","e","r">>>>,
    \* \bclaim_?number\b -> claim_number
    <<(<<WordB>> \o Lits(<<"c","l","a","i","m">>) \o <<LitQ("_", "?")>>
          \o Lits(<<"n","u","m","b","e","r">>) \o <<WordB>>),
      <<"c","l","a","i","m","_","n","u","m","b","e","r">>>>,
    \* \bacct_?id\b -> account_id
    <<(<<WordB>> \o Lits(<<"a","c","c","t">>) \o <<LitQ("_", "?")>>
          \o Lits(<<"i","d">>) \o <<WordB>>),
      <<"a","c","c","o","u","n","t","_","i","d">>>>,
    \* \bloss_?dt\b -> loss_date
    <<(<<WordB>> \o Lits(<<"l","o","s","s">>) \o <<LitQ("_", "?")>>
          \o Lits(<<"d","t">>) \o <<WordB>>),
      <<"l","o","s","s","_","d","a","t","e">>>>,
    \* \bloss_?date\b -> loss_date
    <<(<<WordB>> \o Lits(<<"l","o","s","s">>) \o <<LitQ("_", "?")>>
          \o Lits(<<"d","a","t","e">>) \o <<WordB>>),
      <<"l","o","s","s","_","d","a","t","e">>>>,
    \* \breport_?dt\b -> report_date
    <<(<<WordB>> \o Lits(<<"r","e","p","o","r","t">>) \o <<LitQ("_", "?")>>
          \o Lits(<<"d","t">>) \o <<WordB>>),
      <<"r","e","p","o","r","t","_","d","a","t","e">>>>,
    \* \breport_?date\b -> report_date
    <<(<<WordB>> \o Lits(<<"r","e","p","o","r","t">>) \o <<LitQ("_", "?")>>
          \o Lits(<<"d","a","t","e">>) \o <<WordB>>),
      <<"r","e","p","o","r","t","_","d","a","t","e">>>>,
    \* \beff(?:ective)?_?date\b -> effective_date
    <<(<<WordB>> \o Lits(<<"e","f","f">>)
          \o <<Grp(<<"e","c","t","i","v","e">>, "?"), LitQ("_", "?")>>
          \o Lits(<<"d","a","t","e">>) \o <<WordB>>),
      <<"e","f","f","e","c","t","i","v","e","_","d","a","t","e">>>>,
    \* \bexp(?:iration)?_?date\b -> expiration_date
    <<(<<WordB>> \o Lits(<<"e","x","p">>)
          \o <<Grp(<<"i","r","a","t","i","o","n">>, "?"), LitQ("_", "?")>>
          \o Lits(<<"d","a","t","e">>) \o <<WordB>>),
      <<"e","x","p","i","r","a","t","i","o","n","_","d","a","t","e">>>> >>

RECURSIVE ApplyBaseRules(_, _)
\* The chain of re.sub calls of base_homogenize from rule i on (lines 52-67),
\* each carried out before the next.
ApplyBaseRules(s, i) ==
    IF i > Len(BaseRules) THEN s
    ELSE LET out == ReSub(BaseRules[i][1], BaseRules[i][2], s)
         IN  IF out = s THEN ApplyBaseRules(s, i + 1)
             ELSE ApplyBaseRules(out, i + 1)

\* base_homogenize  (lines 44-70)
base_homogenize(norm) == CollapseUnderscores(ApplyBaseRules(norm, 1))

----------------------------------------------------------------------------
(* apply_synonyms.  A row of synonyms_df is a record                       *)
(* [enabled |-> text, pattern |-> items, replacement |-> template].        *)

\* str.upper on the letters the enabled flags of the model use.
UpperChar(c) == CASE c = "y" -> "Y" [] c = "n" -> "N" [] OTHER -> c

\* IsEnabled with the flag never looked at.
IsEnabled_Always(row) == TRUE

\* str(row.get("enabled", "Y")).strip().upper() != "Y" is false  (line 29)
IsEnabled(row) ==
    LET flag == Strip(row.enabled, Whitespace)
    IN  [i \in 1..Len(flag) |-> UpperChar(flag[i])] = <<"Y">>

\* Whether the text of a pattern item begins with a blank: a blank, alone
\* or followed by its quantifier.
IsBlankItem(item) == item.k = "lit" /\ item.c \in Whitespace

\* Whether the text of a pattern item is a blank and nothing else.
IsBlank(item) == IsBlankItem(item) /\ item.q = "1"

RECURSIVE RStripPattern(_)
\* str.rstrip on the text of a pattern: the blanks the text ends with are
\* dropped; the text of a quantified blank ends with its quantifier.
RStripPattern(pat) ==
    IF pat # <<>> /\ IsBlank(pat[Len(pat)])
    THEN RStripPattern(SubSeq(pat, 1, Len(pat) - 1)) ELSE pat

RECURSIVE LStripPattern(_)
\* str.lstrip on the text of a pattern: the blanks the text begins with are
\* dropped, which leaves the quantifier of a quantified blank with nothing
\* before it.
LStripPattern(pat) ==
    IF pat = <<>> THEN pat
    ELSE IF IsBlank(Head(pat)) THEN LStripPattern(Tail(pat))
    ELSE IF IsBlankItem(Head(pat)) THEN <<Repeat(Head(pat).q)>> \o Tail(pat)
    ELSE pat

\* str(row.get("pattern", "")).strip()  (line 31), on the text of the
\* pattern.
StripPattern(pat) == LStripPattern(RStripPattern(pat))

\* re.sub(pattern, repl, s) raises  (line 35, caught at line 36)
SubRaises(pattern, repl) == CompileRaises(pattern) \/ TemplateRaises(repl)

\* One pass of the loop body  (lines 28-38): the key after the row.
ApplyRule(s, row) ==
    IF ~IsEnabled(row) THEN s
    ELSE LET pattern == StripPattern(row.pattern)
             repl == Strip(row.replacement, Whitespace)
         IN  IF pattern = <<>> THEN s
             ELSE IF SubRaises(pattern, repl) THEN s
             ELSE ReSub(pattern, repl, s)

RECURSIVE ApplyRules_AbortOnError(_, _, _)
\* ApplyRules with the try around the whole loop: the first rule that raises
\* ends it.
ApplyRules_AbortOnError(s, df, i) ==
    IF i > Len(df) THEN s
    ELSE IF /\ IsEnabled(df[i])
            /\ StripPattern(df[i].pattern) # <<>>
            /\ SubRaises(StripPattern(df[i].pattern),
                         Strip(df[i].replacement, Whitespace))
    THEN s
    ELSE ApplyRules_AbortOnError(ApplyRule(s, df[i]), df, i + 1)

RECURSIVE ApplyRules(_, _, _)
\* for _, row in synonyms_df.iterrows()  (line 27), from row i on, each pass
\* carried out before the next.
ApplyRules(s, df, i) ==
    IF i > Len(df) THEN s
    ELSE LET out == ApplyRule(s, df[i])
         IN  IF out = s THEN ApplyRules(s, df, i + 1)
             ELSE ApplyRules(out, df, i + 1)

\* apply_synonyms  (lines 18-41)
apply_synonyms(key, df) ==
    IF df = <<>> THEN key
    ELSE CollapseUnderscores(ApplyRules(key, df, 1))

----------------------------------------------------------------------------
(* build_report_rationalization.  A row of field_df is a record with at    *)
(* least report_name and column_homogenized; a rounded ratio is a number  *)
(* of thousandths.                                                         *)

\* A missing value (NaN) in a column.
NaN == <<"NaN">>

\* The report names of the model in the order Python sorts them.
ReportOrder == <<"a.csv | (csv)", "b.xlsx | S1", "b.xlsx | S2", "c.csv | (csv)">>

ReportRank(r) == CHOOSE i \in 1..Len(ReportOrder) : ReportOrder[i] = r

\* report_fields[r]  (lines 98-102): the distinct keys of the report, NaN
\* dropped.
ReportFields(df, r) ==
    {df[i].column_homogenized :
        i \in {j \in 1..Len(df) : /\ df[j].report_name = r
                                  /\ df[j].column_homogenized # NaN}}

\* field_counts.get(f, 0)  (lines 105-110, 124): in how many reports the key
\* appears.
FieldCount(df, f) ==
    Cardinality({df[i].report_name :
        i \in {j \in 1..Len(df) : df[j].column_homogenized = f}})

RECURSIVE SortedNames(_, _)
\* list(report_fields.keys())  (line 112): groupby sorts the group keys.
SortedNames(names, i) ==
    IF i > Len(ReportOrder) THEN <<>>
    ELSE (IF ReportOrder[i] \in names THEN <<ReportOrder[i]>> ELSE <<>>)
             \o SortedNames(names, i + 1)

\* The magnitude of a Python float of the scorer: a finite double below 2^13
\* that is a multiple of 2^-104, written exactly as a numeral of nine limbs in
\* base 2^13, the first limb the integer part and the other eight the
\* fraction; a quotient is at least 2^-39.  Every
\* operation computes the exact result on the limbs and rounds it to the 53
\* significant bits of a double, an exact half going to the even neighbour.
LimbBase == 2^13

Limbs == 1..9

\* The limbs of numeral n as a sequence.
Numeral(n) == <<n[1], n[2], n[3], n[4], n[5], n[6], n[7], n[8], n[9]>>

\* float(k) for an integer 0 <= k < 2^13.
FromInt(k) == <<k, 0, 0, 0, 0, 0, 0, 0, 0>>

\* Limb i of n, zero below the last limb.
Limb(n, i) == IF i \in Limbs THEN n[i] ELSE 0

\* The carry into limb i of the sum of x and y.
CarryIn(x, y, i) ==
    \E j \in Limbs :
        /\ j > i
        /\ x[j] + y[j] >= LimbBase
        /\ \A k \in Limbs : i < k /\ k < j => x[k] + y[k] = LimbBase - 1

\* The exact sum of the numerals x and y.
AddExact(x, y) ==
    Numeral([i \in Limbs |->
        IF i = 1 THEN x[i] + y[i] + (IF CarryIn(x, y, i) THEN 1 ELSE 0)
        ELSE (x[i] + y[i] + (IF CarryIn(x, y, i) THEN 1 ELSE 0)) % LimbBase])

\* The double nearest to the exact value n + r, where r is a remainder below
\* the last limb that is non-zero exactly when sticky holds.  The first
\* non-zero limb t holds the leading len bits; the 53rd bit is the bit of
\* value unit in limb t + 4.
RoundToDouble(n, sticky) ==
    IF \A i \in Limbs : n[i] = 0 THEN n
    ELSE LET t == CHOOSE i \in Limbs : n[i] # 0 /\ \A j \in Limbs : j < i => n[j] = 0
             len == CHOOSE l \in 1..13 : 2^(l - 1) <= n[t] /\ n[t] < 2^l
             last == t + 4
             unit == 2^(len - 1)
             digit == Limb(n, last)
             below == digit % unit
             guard == IF unit >= 2 THEN below >= unit \div 2
                      ELSE Limb(n, last + 1) >= LimbBase \div 2
             rest == \/ sticky
                     \/ IF unit >= 2 THEN below % (unit \div 2) # 0
                        ELSE Limb(n, last + 1) % (LimbBase \div 2) # 0
                     \/ \E i \in Limbs :
                            i > (IF unit >= 2 THEN last ELSE last + 1) /\ n[i] # 0
             odd == (digit \div unit) % 2 = 1
             kept == Numeral([i \in Limbs |->
                         IF i < last THEN n[i] ELSE IF i = last THEN digit - below ELSE 0])
             ulp == Numeral([i \in Limbs |-> IF i = last THEN unit ELSE 0])
         IN  IF last \in Limbs /\ guard /\ (rest \/ odd) THEN AddExact(kept, ulp)
             ELSE kept

\* x + y of two floats.
AddF(x, y) == RoundToDouble(AddExact(x, y), FALSE)

RECURSIVE Remainder(_, _, _)
\* The remainder left by the long division of the first i limbs of x by k.
Remainder(x, k, i) ==
    IF i = 0 THEN 0 ELSE (Remainder(x, k, i - 1) * LimbBase + x[i]) % k

\* x / k of a float and an integer 0 < k < 2^18.
DivF(x, k) ==
    RoundToDouble(
        Numeral([i \in Limbs |-> (Remainder(x, k, i - 1) * LimbBase + x[i]) \div k]),
        Remainder(x, k, 9) # 0)

\* x >= y of two floats.
GreaterEqF(x, y) ==
    \/ x = y
    \/ \E i \in Limbs : x[i] > y[i] /\ \A j \in Limbs : j < i => x[j] = y[j]

RECURSIVE CarryOfThousand(_, _)
\* The carry out of limb i of the product 1000 * x.
CarryOfThousand(x, i) ==
    IF i > 9 THEN 0 ELSE (x[i] * 1000 + CarryOfThousand(x, i + 1)) \div LimbBase

\* round(x, 3)  (lines 149-150), in thousandths: Python rounds the exact
\* value of the double to the nearest thousandth, an exact half going to the
\* even one.
Round3(x) ==
    LET whole == x[1] * 1000 + CarryOfThousand(x, 2)
        frac == [i \in 2..9 |-> (x[i] * 1000 + CarryOfThousand(x, i + 1)) % LimbBase]
        guard == frac[2] >= LimbBase \div 2
        rest == \/ frac[2] % (LimbBase \div 2) # 0
                \/ \E i \in 3..9 : frac[i] # 0
    IN  IF guard /\ (rest \/ whole % 2 = 1) THEN whole + 1 ELSE whole

\* jaccard  (lines 116-119): the quotient of two integers is the double
\* nearest to it.
jaccard(a, b) ==
    IF a = {} /\ b = {} THEN FromInt(0)
    ELSE DivF(FromInt(Cardinality(a \cap b)), Cardinality(a \cup b))

RECURSIVE SumFloats(_, _)
\* sum(overlaps)  (line 133) as CPython up to 3.11 computes it: the first n
\* floats added from left to right, each partial sum rounded to a double.
SumFloats(rs, n) ==
    IF n = 0 THEN FromInt(0) ELSE AddF(SumFloats(rs, n - 1), rs[n])

\* The borrow taken from limb i in the difference of x and y.
BorrowIn(x, y, i) ==
    \E j \in Limbs :
        /\ j > i
        /\ x[j] < y[j]
        /\ \A k \in Limbs : i < k /\ k < j => x[k] = y[k]

\* The exact difference x - y of the numerals x >= y.
SubExact(x, y) ==
    Numeral([i \in Limbs |->
        (x[i] - y[i] - (IF BorrowIn(x, y, i) THEN 1 ELSE 0) + LimbBase) % LimbBase])

\* A float with its sign: [neg, mag], mag the numeral of its magnitude; the
\* sign of zero is left out.
Signed(neg, mag) == [neg |-> neg /\ mag # FromInt(0), mag |-> mag]

\* -a
Minus(a) == Signed(~a.neg, a.mag)

\* a + b of two signed floats.
AddSigned(a, b) ==
    LET larger == IF GreaterEqF(a.mag, b.mag) THEN a ELSE b
        smaller == IF GreaterEqF(a.mag, b.mag) THEN b ELSE a
        exact == IF a.neg = b.neg THEN AddExact(larger.mag, smaller.mag)
                 ELSE SubExact(larger.mag, smaller.mag)
    IN  Signed(larger.neg, RoundToDouble(exact, FALSE))

RECURSIVE SumCompensated(_, _)
\* sum(overlaps)  (line 133) as CPython from 3.12 on computes it: the pair
\* <<f_result, c>> after the first n floats, the rounding error of every
\* addition gathered in the compensation c (Neumaier's algorithm).
SumCompensated(rs, n) ==
    IF n = 1 THEN <<Signed(FALSE, rs[1]), Signed(FALSE, FromInt(0))>>
    ELSE LET before == SumCompensated(rs, n - 1)
             f_result == before[1]
             c == before[2]
             x == Signed(FALSE, rs[n])
             t == AddSigned(f_result, x)
             larger == IF GreaterEqF(f_result.mag, x.mag) THEN f_result ELSE x
             smaller == IF GreaterEqF(f_result.mag, x.mag) THEN x ELSE f_result
         IN  <<t, AddSigned(c, AddSigned(AddSigned(larger, Minus(t)), smaller))>>

\* sum(overlaps)  (line 133) of a non-empty list: the repository names no
\* interpreter version, and the two families of CPython add differently.
Sum(rs, compensated) ==
    IF ~compensated THEN SumFloats(rs, Len(rs))
    ELSE LET last == SumCompensated(rs, Len(rs))
         IN  IF last[2].mag # FromInt(0) THEN AddSigned(last[1], last[2]).mag
             ELSE last[1].mag

\* The thresholds of the recommendation  (lines 138, 140): the doubles
\* nearest to 0.35 and 0.70.
KeepThreshold == DivF(FromInt(35), 100)
MergeThreshold == DivF(FromInt(70), 100)

\* The row of report r  (lines 121-152).
ReportRow(df, reports, r, compensated) ==
    LET fields == ReportFields(df, r)
        total_fields == Cardinality(fields)
        unique_fields == Cardinality({f \in fields : FieldCount(df, f) = 1})
        uniqueness_ratio ==
            IF total_fields # 0 THEN DivF(FromInt(unique_fields), total_fields)
            ELSE FromInt(0)
        others == SelectSeq(reports, LAMBDA o : o # r)
        overlaps == [i \in 1..Len(others) |-> jaccard(fields, ReportFields(df, others[i]))]
        avg_overlap ==
            IF Len(others) # 0 THEN DivF(Sum(overlaps, compensated), Len(others))
            ELSE FromInt(0)
        rec == IF total_fields = 0 THEN "Review"
               ELSE IF GreaterEqF(uniqueness_ratio, KeepThreshold) THEN "Keep"
               ELSE IF GreaterEqF(avg_overlap, MergeThreshold) THEN "Merge"
               ELSE "Review"
    IN  [report_name |-> r,
         total_fields |-> total_fields,
         unique_fields |-> unique_fields,
         uniqueness_ratio |-> Round3(uniqueness_ratio),
         avg_jaccard_overlap |-> Round3(avg_overlap),
         recommendation |-> rec]

\* "Keep" < "Merge" < "Review" as Python compares the strings.
RecRank(rec) == CASE rec = "Keep" -> 1 [] rec = "Merge" -> 2 [] rec = "Review" -> 3

\* Whether row x sorts strictly before row y  (lines 154-157): by
\* recommendation ascending, avg_jaccard_overlap descending, uniqueness_ratio
\* ascending.
RowBefore(x, y) ==
    \/ RecRank(x.recommendation) < RecRank(y.recommendation)
    \/ /\ x.recommendation = y.recommendation
       /\ \/ x.avg_jaccard_overlap > y.avg_jaccard_overlap
          \/ /\ x.avg_jaccard_overlap = y.avg_jaccard_overlap
             /\ x.uniqueness_ratio < y.uniqueness_ratio

RECURSIVE InsertRow(_, _)
\* The sorted rows with x put after the rows it does not sort before.
InsertRow(x, sorted) ==
    IF sorted = <<>> THEN <<x>>
    ELSE IF RowBefore(x, sorted[Len(sorted)])
    THEN Append(InsertRow(x, SubSeq(sorted, 1, Len(sorted) - 1)), sorted[Len(sorted)])
    ELSE Append(sorted, x)

RECURSIVE SortRows(_)
\* DataFrame.sort_values  (lines 154-157): a stable sort.
SortRows(rows) ==
    IF rows = <<>> THEN <<>>
    ELSE InsertRow(rows[Len(rows)], SortRows(SubSeq(rows, 1, Len(rows) - 1)))

\* build_report_rationalization  (lines 83-157), under an interpreter whose
\* sum is compensated or not.
build_report_rationalization(df, compensated) ==
    IF df = <<>> THEN <<>>
    ELSE LET reports == SortedNames({df[i].report_name : i \in 1..Len(df)}, 1)
         IN  SortRows([i \in 1..Len(reports) |-> ReportRow(df, reports, reports[i], compensated)])

----------------------------------------------------------------------------
(* df_to_excel_bytes.  dfs_by_sheetname is a sequence of <<name, table>>   *)
(* with distinct names (a dict in insertion order); a table is the         *)
(* sequence of its cells; a workbook is a sequence of                      *)
(* [title |-> name, cells |-> table].                                      *)

\* The Excel sheet name limit  (line 77).
SheetNameLimit == 31

\* sheet_name[:31]  (line 77)
SafeSheet(sheet_name) ==
    IF Len(sheet_name) <= SheetNameLimit THEN sheet_name
    ELSE SubSeq(sheet_name, 1, SheetNameLimit)

\* df.to_excel(writer, sheet_name=safe_sheet)  (line 78) on a writer opened
\* for writing: a title the workbook has not yet gets a new sheet; a title it
\* has already is written into, the new cells over the old ones.
ToExcel(book, title, table) ==
    IF \E i \in 1..Len(book) : book[i].title = title
    THEN [i \in 1..Len(book) |->
            IF book[i].title = title
            THEN [title |-> title,
                  cells |-> table \o SubSeq(book[i].cells, Len(table) + 1,
                                            Len(book[i].cells))]
            ELSE book[i]]
    ELSE Append(book, [title |-> title, cells |-> table])

RECURSIVE WriteSheets(_, _, _)
\* for sheet_name, df in dfs_by_sheetname.items()  (lines 76-78), from entry
\* i on.
WriteSheets(book, dfs, i) ==
    IF i > Len(dfs) THEN book
    ELSE WriteSheets(ToExcel(book, SafeSheet(dfs[i][1]), dfs[i][2]), dfs, i + 1)

\* Leaving the with block  (lines 75-79) saves the workbook, which raises
\* IndexError when no sheet has been written.
SaveRaises(dfs) == dfs = <<>>

\* df_to_excel_bytes  (lines 73-80): the workbook the bytes hold, nothing
\* when the call raises.
df_to_excel_bytes(dfs) == IF SaveRaises(dfs) THEN Unset ELSE WriteSheets(<<>>, dfs, 1)

----------------------------------------------------------------------------
(* The analysis run (lines 207-483) and the session state.  A file is a    *)
(* record [name, sheets], a sheet a record [sheet, nrows, columns]; a CSV   *)
(* file has the one sheet "(csv)".  A table is the sequence of its rows.     *)
(* The sections that only display what has been computed write no state.  *)

\* DEFINITION_SUGGESTIONS  (lines 164-178): <<key, definition>>, a definition
\* being the sequence of its sentences and "" the empty sequence.
DEFINITION_SUGGESTIONS == <<
    <<<<"p","o","l","i","c","y","_","n","u","m","b","e","r">>,
      <<"Unique identifier for an insurance policy.">>>>,
    <<<<"c","l","a","i","m","_","n","u","m","b","e","r">>,
      <<"Unique identifier for an insurance claim.">>>>,
    <<<<"a","c","c","o","u","n","t","_","i","d">>,
      <<"Identifier for the customer/account associated with the policy.">>>>,
    <<<<"l","o","s","s","_","d","a","t","e">>,
      <<"Date on which the loss event occurred.">>>>,
    <<<<"r","e","p","o","r","t","_","d","a","t","e">>,
      <<"Date the loss/claim was first reported to the carrier.">>>>,
    <<<<"e","f","f","e","c","t","i","v","e","_","d","a","t","e">>,
      <<"Policy start date (coverage begins).">>>>,
    <<<<"e","x","p","i","r","a","t","i","o","n","_","d","a","t","e">>,
      <<"Policy end date (coverage ends).">>>>,
    <<<<"w","r","i","t","t","e","n","_","p","r","e","m","i","u","m">>,
      <<"Premium written for the policy term (may differ from earned premium).">>>>,
    <<<<"t","o","t","a","l","_","i","n","c","u","r","r","e","d">>,
      <<"Total incurred amount (paid + reserved).">>>>,
    <<<<"t","o","t","a","l","_","p","a","i","d">>,
      <<"Total amount paid to date on the claim.">>>>,
    <<<<"c","u","r","r","e","n","t","_","r","e","s","e","r","v","e">>,
      <<"Current outstanding reserve amount on the claim.">>>>,
    <<<<"p","a","y","m","e","n","t","_","d","a","t","e">>,
      <<"Date the payment transaction was issued/recorded.">>>>,
    <<<<"p","a","y","m","e","n","t","_","a","m","o","u","n","t">>,
      <<"Amount paid in a payment transaction.">>>> >>

\* DEFINITION_SUGGESTIONS.get(str(k), "")  (line 367)
SuggestedDefinition(k) ==
    IF \E i \in 1..Len(DEFINITION_SUGGESTIONS) : DEFINITION_SUGGESTIONS[i][1] = k
    THEN DEFINITION_SUGGESTIONS[
             CHOOSE i \in 1..Len(DEFINITION_SUGGESTIONS) :
                 DEFINITION_SUGGESTIONS[i][1] = k][2]
    ELSE <<>>

\* The starter rules of the synonym table  (lines 228-233).
SeedSynonyms == <<
    \* ^pol(?:icy)?_?no$ -> policy_number
    [enabled |-> <<"Y">>,
     pattern |-> <<Bol>> \o Lits(<<"p","o","l">>)
                     \o <<Grp(<<"i","c","y">>, "?"), LitQ("_", "?")>>
                     \o Lits(<<"n","o">>) \o <<Eol>>,
     replacement |-> <<"p","o","l","i","c","y","_","n","u","m","b","e","r">>],
    \* ^policy_?number$ -> policy_number
    [enabled |-> <<"Y">>,
     pattern |-> <<Bol>> \o Lits(<<"p","o","l","i","c","y">>) \o <<LitQ("_", "?")>>
                     \o Lits(<<"n","u","m","b","e","r">>) \o <<Eol>>,
     replacement |-> <<"p","o","l","i","c","y","_","n","u","m","b","e","r">>],
    \* ^claim_?no$ -> claim_number
    [enabled |-> <<"Y">>,
     pattern |-> <<Bol>> \o Lits(<<"c","l","a","i","m">>) \o <<LitQ("_", "?")>>
                     \o Lits(<<"n","o">>) \o <<Eol>>,
     replacement |-> <<"c","l","a","i","m","_","n","u","m","b","e","r">>],
    \* ^claim_?number$ -> claim_number
    [enabled |-> <<"Y">>,
     pattern |-> <<Bol>> \o Lits(<<"c","l","a","i","m">>) \o <<LitQ("_", "?")>>
                     \o Lits(<<"n","u","m","b","e","r">>) \o <<Eol>>,
     replacement |-> <<"c","l","a","i","m","_","n","u","m","b","e","r">>] >>

\* f.name.lower().endswith(".csv")  (lines 268, 302) on the names of the model.
IsCsv(name) == name \in {"a.csv", "c.csv"}

\* f"{f.name} | {sheet}"  (lines 304, 323) on the names of the model.
ReportLabel(name, sheet) ==
    CASE name = "a.csv" /\ sheet = "(csv)" -> "a.csv | (csv)"
      [] name = "b.xlsx" /\ sheet = "S1" -> "b.xlsx | S1"
      [] name = "b.xlsx" /\ sheet = "S2" -> "b.xlsx | S2"
      [] name = "c.csv" /\ sheet = "(csv)" -> "c.csv | (csv)"

\* df.columns[:10]  (lines 275, 286)
SampleLimit == 10

\* The sheets a loop gets from file f when its read fails at k: 0 is no
\* failure; for a CSV 1 is pd.read_csv raising; for a workbook 1 is
\* pd.ExcelFile raising and j + 1 is xls.parse raising on sheet j, the sheets
\* before it having been parsed and their rows appended.
SheetsRead(f, k) ==
    IF IsCsv(f.name)
    THEN (IF k = 0 THEN f.sheets ELSE <<>>)
    ELSE (IF k = 0 THEN f.sheets
          ELSE IF k = 1 THEN <<>>
          ELSE SubSeq(f.sheets, 1, k - 2))

\* The places where a read of f can raise.
FailPoints(f) == IF IsCsv(f.name) THEN 0..1 ELSE 0..(Len(f.sheets) + 1)

RECURSIVE Join(_, _)
\* sep.join(texts)
Join(sep, texts) ==
    IF texts = <<>> THEN <<>>
    ELSE IF Len(texts) = 1 THEN texts[1]
    ELSE texts[1] \o sep \o Join(sep, Tail(texts))

\* ", ".join([str(c) for c in df.columns[:10]])  (lines 275, 286)
SampleColumns(columns) ==
    Join(<<",", " ">>,
         IF Len(columns) <= SampleLimit THEN columns
         ELSE SubSeq(columns, 1, SampleLimit))

\* The profile rows of one file  (lines 268-287).
ProfileRowsOf(f, k) ==
    LET sheets == SheetsRead(f, k)
    IN  [i \in 1..Len(sheets) |->
            [file_name |-> f.name,
             sheet_name |-> sheets[i].sheet,
             rows |-> sheets[i].nrows,
             columns |-> Len(sheets[i].columns),
             sample_columns |-> SampleColumns(sheets[i].columns)]]

RECURSIVE ProfileRows(_, _, _)
\* The profiling loop  (lines 266-289), from file i on.
ProfileRows(files, fails, i) ==
    IF i > Len(files) THEN <<>>
    ELSE ProfileRowsOf(files[i], fails[i]) \o ProfileRows(files, fails, i + 1)

\* One field row  (lines 305-318, 324-337).
FieldRow(f, sheet, system, synonyms, col) ==
    LET col_norm_ == normalize_col(col)
        col_base_ == base_homogenize(col_norm_)
        col_homo_ == apply_synonyms(col_base_, synonyms)
    IN  [source_system |-> system,
         file_name |-> f.name,
         sheet_name |-> sheet.sheet,
         report_name |-> ReportLabel(f.name, sheet.sheet),
         column_original |-> col,
         column_normalized |-> col_norm_,
         column_homogenized |-> col_homo_]

RECURSIVE FieldRowsOfColumns(_, _, _, _, _)
\* for col in df.columns  (lines 305, 324), from column i on.
FieldRowsOfColumns(f, sheet, system, synonyms, i) ==
    IF i > Len(sheet.columns) THEN <<>>
    ELSE <<FieldRow(f, sheet, system, synonyms, sheet.columns[i])>>
             \o FieldRowsOfColumns(f, sheet, system, synonyms, i + 1)

\* The field rows of one sheet.
FieldRowsOfSheet(f, sheet, system, synonyms) ==
    FieldRowsOfColumns(f, sheet, system, synonyms, 1)

RECURSIVE FieldRowsOfSheets(_, _, _, _, _)
\* The sheets of one file, from sheet j on.
FieldRowsOfSheets(f, sheets, system, synonyms, j) ==
    IF j > Len(sheets) THEN <<>>
    ELSE FieldRowsOfSheet(f, sheets[j], system, synonyms)
             \o FieldRowsOfSheets(f, sheets, system, synonyms, j + 1)

RECURSIVE FieldRows(_, _, _, _, _)
\* The field inventory loop  (lines 300-339), from file i on.
FieldRows(files, fails, system, synonyms, i) ==
    IF i > Len(files) THEN <<>>
    ELSE FieldRowsOfSheets(files[i], SheetsRead(files[i], fails[i]), system, synonyms, 1)
             \o FieldRows(files, fails, system, synonyms, i + 1)

\* The characters of the keys in the order Python compares them.
CharOrder == <<" ","-","0","1","2","3","4","5","6","7","8","9",
               "A","B","C","D","E","F","G","H","I","J","K","L","M",
               "N","O","P","Q","R","S","T","U","V","W","X","Y","Z","_",
               "a","b","c","d","e","f","g","h","i","j","k","l","m",
               "n","o","p","q","r","s","t","u","v","w","x","y","z">>

CharRank(c) == CHOOSE i \in 1..Len(CharOrder) : CharOrder[i] = c

RECURSIVE TextLess(_, _)
\* a < b as Python compares the strings.
TextLess(a, b) ==
    IF b = <<>> THEN FALSE
    ELSE IF a = <<>> THEN TRUE
    ELSE IF Head(a) = Head(b) THEN TextLess(Tail(a), Tail(b))
    ELSE CharRank(Head(a)) < CharRank(Head(b))

RECURSIVE SortedTexts(_)
\* The texts of a set in ascending order.
SortedTexts(S) ==
    IF S = {} THEN <<>>
    ELSE LET least == CHOOSE x \in S : \A y \in S \ {x} : TextLess(x, y)
         IN  <<least>> \o SortedTexts(S \ {least})

\* distinct_fields  (lines 353-358)
DistinctFields(df) ==
    SortedTexts({df[i].column_homogenized : i \in 1..Len(df)})

\* defs  (lines 362-368): a fresh definition table.
FreshDefinitions(df) ==
    LET distinct_fields == DistinctFields(df)
    IN  [i \in 1..Len(distinct_fields) |->
            [column_homogenized |-> distinct_fields[i],
             include_flag |-> <<"Y">>,
             business_definition |-> SuggestedDefinition(distinct_fields[i])]]

\* NeedsReset with the recorded source system never looked at.
NeedsReset_TableOnly(state, system) == "definitions_df" \notin DOMAIN state

\* The condition of line 361.
NeedsReset(state, system) ==
    \/ "definitions_df" \notin DOMAIN state
    \/ "definitions_source" \notin DOMAIN state
    \/ state["definitions_source"] # system

\* The rows of the left join of one field row with the definitions
\* (lines 394-398).
MergeRow(row, defs) ==
    LET hits == SelectSeq(defs, LAMBDA d : d.column_homogenized = row.column_homogenized)
        joined(flag, text) ==
            [source_system |-> row.source_system,
             file_name |-> row.file_name,
             sheet_name |-> row.sheet_name,
             report_name |-> row.report_name,
             column_original |-> row.column_original,
             column_normalized |-> row.column_normalized,
             column_homogenized |-> row.column_homogenized,
             include_flag |-> flag,
             business_definition |-> text]
    IN  IF hits = <<>> THEN <<joined(NaN, NaN)>>
        ELSE [i \in 1..Len(hits) |->
                 joined(hits[i].include_flag, hits[i].business_definition)]

RECURSIVE Merge(_, _, _)
\* field_df.merge(edited_definitions[...], on="column_homogenized", how="left")
Merge(df, defs, i) ==
    IF i > Len(df) THEN <<>> ELSE MergeRow(df[i], defs) \o Merge(df, defs, i + 1)

\* st.session_state[key] = value
SetKey(state, key, value) == (key :> value) @@ state

\* pd.crosstab(df[col], df["report_name"]) with "X" for a count above zero
\* and "" for zero, its index made the column "field"  (lines 431-438,
\* 469-470): a row per distinct value of the column in ascending order, a
\* mark per report.
CrossTab(df, col) ==
    LET values == SortedTexts({df[i][col] : i \in 1..Len(df)})
        reports == {df[i].report_name : i \in 1..Len(df)}
    IN  [k \in 1..Len(values) |->
            [field |-> values[k],
             marks |-> [r \in reports |->
                          IF \E i \in 1..Len(df) : /\ df[i][col] = values[k]
                                                   /\ df[i].report_name = r
                          THEN "X" ELSE ""]]]

\* The mapping given to df_to_excel_bytes  (lines 456-476): the seven tables
\* of the run under their sheet names, the field inventory and the
\* definitions cut down to the rows flagged Y when the checkbox is set.
ExportSheets(profile, synonyms, fields, definitions, rational, export_only_included) ==
    LET dictionary_export ==
            IF export_only_included
            THEN SelectSeq(definitions, LAMBDA d : d.include_flag = <<"Y">>)
            ELSE definitions
        field_export ==
            IF export_only_included
            THEN SelectSeq(fields, LAMBDA d : d.include_flag = <<"Y">>)
            ELSE fields
    IN  <<
            <<<<"_","_","Q","u","i","c","k","_","P","r","o","f","i","l","e">>,
              profile>>,
            <<<<"_","_","S","y","n","o","n","y","m","_","R","u","l","e","s">>,
              synonyms>>,
            <<<<"_","_","F","i","e","l","d","_","I","n","v","e","n","t","o","r","y">>,
              field_export>>,
            <<<<"_","_","D","i","s","t","i","n","c","t","_","F","i","e","l","d","s">>,
              dictionary_export>>,
            <<<<"_","_","C","r","o","s","s","T","a","b","_","O","r","i","g","i","n","a","l">>,
              CrossTab(fields, "column_original")>>,
            <<<<"_","_","C","r","o","s","s","T","a","b","_","H","o","m","o","g","e","n","i","z","e","d">>,
              CrossTab(fields, "column_homogenized")>>,
            <<<<"_","_","R","e","p","o","r","t","_","R","a","t","i","o","n","a","l","i","s","a","t","i","o","n">>,
              rational>> >>

----------------------------------------------------------------------------
(* The field pipeline on one header: SpecFields *)

\* Bounds of the headers.
MaxHeaderLen == 3
MaxWords == 3

HeaderAlphabet == {"a", "B", "1", " ", "-", "_"}

RECURSIVE TextsUpTo(_, _)
\* Every text of at most n characters of the alphabet.
TextsUpTo(alphabet, n) ==
    IF n = 0 THEN {<<>>}
    ELSE LET shorter == TextsUpTo(alphabet, n - 1)
         IN  shorter \cup {Append(s, c) : s \in shorter, c \in alphabet}

\* The words headers are made of.
Words == {
    <<"p","o","l">>, <<"p","o","l","i","c","y">>, <<"n","o">>,
    <<"n","u","m","b","e","r">>, <<"c","l","a","i","m">>,
    <<"e","f","f">>, <<"d","a","t","e">>, <<"i","n","s","u","r","e","d">> }

Separators == {<<" ">>, <<>>}

RECURSIVE HeadersOf(_)
\* The headers of exactly n words.
HeadersOf(n) ==
    IF n = 1 THEN Words
    ELSE {h \o sep \o w : h \in HeadersOf(n - 1), sep \in Separators, w \in Words}

Headers ==
    TextsUpTo(HeaderAlphabet, MaxHeaderLen)
        \cup UNION {HeadersOf(n) : n \in 1..MaxWords}

InitFields ==
    /\ col_orig \in Headers
    /\ col_norm = Unset /\ col_base = Unset /\ col_renorm = Unset
    /\ fstage = "raw"
    /\ homogenized = Unset /\ synonyms_df = Unset /\ col_homo = Unset
    /\ sstage = "idle"
    /\ field_df = Unset /\ rational_df = Unset /\ rstage = "idle"
    /\ dfs_by_sheetname = Unset /\ workbook = Unset /\ written = Unset
    /\ xstage = "idle"
    /\ NoRun

\* col_norm = normalize_col(col_orig)  (line 307)
NormalizeCol ==
    /\ fstage = "raw"
    /\ col_norm' = normalize_col(col_orig)
    /\ fstage' = "normalized"
    /\ UNCHANGED <<col_orig, col_base, col_renorm, synVars, ratVars, xlsVars, runVars>>

\* col_base = base_homogenize(col_norm)  (line 308)
BaseHomogenize ==
    /\ fstage = "normalized"
    /\ col_base' = base_homogenize(col_norm)
    /\ fstage' = "homogenized"
    /\ UNCHANGED <<col_orig, col_norm, col_renorm, synVars, ratVars, xlsVars, runVars>>

\* normalize_col applied to its own result.
NormalizeAgain ==
    /\ fstage = "normalized"
    /\ col_renorm' = normalize_col(col_norm)
    /\ fstage' = "renormalized"
    /\ UNCHANGED <<col_orig, col_norm, col_base, synVars, ratVars, xlsVars, runVars>>

NextFields == NormalizeCol \/ BaseHomogenize \/ NormalizeAgain

vars == <<fieldVars, synVars, ratVars, xlsVars, runVars>>

SpecFields == InitFields /\ [][NextFields]_vars

\* A text without a leading, a trailing or a doubled underscore.
NoStrayUnderscore(s) ==
    /\ s # <<>> => s[1] # "_" /\ s[Len(s)] # "_"
    /\ \A i \in 1..(Len(s) - 1) : ~(s[i] = "_" /\ s[i + 1] = "_")

\* C4: normalize_col is idempotent (normalizing its own result gives that
\* result back), and its result has no leading, trailing or doubled underscore.
C4_NormalizeIdempotent ==
    /\ fstage # "raw" => NoStrayUnderscore(col_norm)
    /\ fstage = "renormalized" => col_renorm = col_norm

\* A header with underscores and blanks around its text has been normalized
\* twice.
C4_Witness ==
    /\ fstage = "renormalized"
    /\ col_orig = <<"_", "B", " ">>
    /\ col_norm = <<"b">>

\* Whether the whole key matches the pattern of one of the base rules.
MatchesBaseRule(key) ==
    \E i \in 1..Len(BaseRules) : FullMatch(BaseRules[i][1], key)

\* C10: on a key produced by normalize_col, base_homogenize changes the key
\* only when the whole key matches one of its abbreviation patterns; a key
\* that merely contains an abbreviation among its underscore-separated tokens
\* is returned unchanged.
C10_BaseOnlyWholeKey ==
    fstage = "homogenized" /\ ~MatchesBaseRule(col_norm) => col_base = col_norm

\* insured_pol_no has gone through base_homogenize.
C10_Witness ==
    /\ fstage = "homogenized"
    /\ col_norm = <<"i","n","s","u","r","e","d","_","p","o","l","_","n","o">>

----------------------------------------------------------------------------
(* apply_synonyms on one key and one rule table: SpecSynonyms *)

\* Bounds of the keys and of the rule tables.
MaxKeyLen == 2
MaxRules == 2

KeyAlphabet == {"n", "o", "_"}

Flags == {<<"Y">>, <<"N">>}

\* <<pattern, replacement>> of the rules of the tables.
RuleBodies == {
    <<(<<Lit("o")>>), <<"_">>>>,                            \* o -> _
    <<(<<Bol, Lit("n"), LitQ("_", "?"), Lit("o"), Eol>>),
      <<"o", "_", "n">>>>,                                  \* ^n_?o$ -> o_n
    <<(<<OpenParen, Lit("n")>>), <<"o">>>>,                 \* (n : no regex
    <<(<<Lit("n")>>), <<"\\1">>>>,                          \* n -> \1 : no group 1
    <<(<<Lit(" ")>>), <<"o">>>>,                            \* blank pattern
    <<(<<LitQ(" ", "?"), Lit("n")>>), <<"o">>>> }           \* " ?n": ?n after strip

RulePool ==
    {[enabled |-> f, pattern |-> b[1], replacement |-> b[2]] :
        f \in Flags, b \in RuleBodies}

RECURSIVE TablesUpTo(_)
\* Every rule table of at most n rows.
TablesUpTo(n) ==
    IF n = 0 THEN {<<>>}
    ELSE LET shorter == TablesUpTo(n - 1)
         IN  shorter \cup {Append(df, r) : df \in shorter, r \in RulePool}

InitSynonyms ==
    /\ homogenized \in TextsUpTo(KeyAlphabet, MaxKeyLen)
    /\ synonyms_df \in TablesUpTo(MaxRules)
    /\ col_homo = Unset
    /\ sstage = "called"
    /\ col_orig = Unset /\ col_norm = Unset /\ col_base = Unset
    /\ col_renorm = Unset /\ fstage = "idle"
    /\ field_df = Unset /\ rational_df = Unset /\ rstage = "idle"
    /\ dfs_by_sheetname = Unset /\ workbook = Unset /\ written = Unset
    /\ xstage = "idle"
    /\ NoRun

\* col_homo = apply_synonyms(col_base, synonyms_df)  (line 309)
ApplySynonyms ==
    /\ sstage = "called"
    /\ col_homo' = apply_synonyms(homogenized, synonyms_df)
    /\ sstage' = "returned"
    /\ UNCHANGED <<homogenized, synonyms_df, fieldVars, ratVars, xlsVars, runVars>>

NextSynonyms == ApplySynonyms

SpecSynonyms == InitSynonyms /\ [][NextSynonyms]_vars

\* An enabled rule with a pattern whose substitution raises.
Malformed(row) ==
    /\ IsEnabled(row)
    /\ StripPattern(row.pattern) # <<>>
    /\ SubRaises(StripPattern(row.pattern), Strip(row.replacement, Whitespace))

\* The key apply_synonyms gets from the pipeline: a result of base_homogenize,
\* which has no leading, trailing or doubled underscore.
IsBaseHomogenized(key) == base_homogenize(normalize_col(key)) = key

\* C1 as stated: for every key, a table with malformed enabled rules gives what
\* the table without them gives.
C1_SkipMalformedAnyKey ==
    sstage = "returned" /\ (\E i \in 1..Len(synonyms_df) : Malformed(synonyms_df[i]))
        => col_homo = apply_synonyms(homogenized,
                          SelectSeq(synonyms_df, LAMBDA r : ~Malformed(r)))

\* C1: for every key without leading, trailing or doubled underscores (every
\* key base_homogenize produces), a table with malformed enabled rules gives
\* what the table without them gives: the malformed rules are skipped and the
\* others applied in table order.
C1_SkipMalformed ==
    /\ sstage = "returned"
    /\ \E i \in 1..Len(synonyms_df) : Malformed(synonyms_df[i])
    /\ CollapseUnderscores(homogenized) = homogenized
    => col_homo = apply_synonyms(homogenized,
                      SelectSeq(synonyms_df, LAMBDA r : ~Malformed(r)))

\* A malformed rule followed by a rule that changes the key.
C1_Witness ==
    /\ sstage = "returned"
    /\ homogenized = <<"n", "o">>
    /\ Len(synonyms_df) = 2
    /\ Malformed(synonyms_df[1])
    /\ ~Malformed(synonyms_df[2])
    /\ col_homo = <<"o", "_", "n">>

\* C2: for every base-homogenized key, the table gives what it gives with
\* every rule whose enabled flag is not Y removed.
C2_DisabledRulesInert ==
    sstage = "returned" /\ IsBaseHomogenized(homogenized)
        => col_homo = apply_synonyms(homogenized,
                          SelectSeq(synonyms_df, LAMBDA r : r.enabled = <<"Y">>))

\* A disabled rule whose pattern matches the key, before an enabled rule that
\* changes it.
C2_Witness ==
    /\ sstage = "returned"
    /\ homogenized = <<"n", "o">>
    /\ Len(synonyms_df) = 2
    /\ synonyms_df[1] = [enabled |-> <<"N">>, pattern |-> <<Lit("o")>>,
                          replacement |-> <<"_">>]
    /\ synonyms_df[2].enabled = <<"Y">>
    /\ col_homo = <<"o", "_", "n">>

----------------------------------------------------------------------------
(* The scorer on one table of field occurrences: SpecRational *)

\* Bound of the field tables.
MaxRows == 4

\* The rows a field table is made of, report by report.
RowKinds == <<
    [report_name |-> "a.csv | (csv)", column_homogenized |-> <<"a">>],
    [report_name |-> "a.csv | (csv)", column_homogenized |-> <<"b">>],
    [report_name |-> "a.csv | (csv)", column_homogenized |-> <<"c">>],
    [report_name |-> "a.csv | (csv)", column_homogenized |-> NaN],
    [report_name |-> "b.xlsx | S1", column_homogenized |-> <<"a">>],
    [report_name |-> "b.xlsx | S1", column_homogenized |-> <<"b">>],
    [report_name |-> "b.xlsx | S1", column_homogenized |-> <<"c">>],
    [report_name |-> "b.xlsx | S1", column_homogenized |-> NaN],
    [report_name |-> "c.csv | (csv)", column_homogenized |-> <<"a">>],
    [report_name |-> "c.csv | (csv)", column_homogenized |-> <<"b">>],
    [report_name |-> "c.csv | (csv)", column_homogenized |-> <<"c">>],
    [report_name |-> "c.csv | (csv)", column_homogenized |-> NaN] >>

RECURSIVE KindSeqsUpTo(_)
\* The non-decreasing sequences of at most n indices of RowKinds: the rows of
\* a table come report by report, as the inventory loop appends them.
KindSeqsUpTo(n) ==
    IF n = 0 THEN {<<>>}
    ELSE LET shorter == KindSeqsUpTo(n - 1)
         IN  shorter \cup
             {Append(p[1], p[2]) :
                 p \in {x \in shorter \X (1..Len(RowKinds)) :
                           x[1] = <<>> \/ x[1][Len(x[1])] <= x[2]}}

FieldTables ==
    {[i \in 1..Len(ks) |-> RowKinds[ks[i]]] : ks \in KindSeqsUpTo(MaxRows)}

BoundaryKeys ==
    << <<"a">>, <<"b">>, <<"c">>, <<"d">>, <<"e">>, <<"f">>, <<"g">>, <<"h">>, <<"i">>, <<"j">> >>

RECURSIVE NestedRows(_, _)
\* The table in which report i of ReportOrder, from report i on, holds the
\* first sizes[i] keys of BoundaryKeys.
NestedRows(sizes, i) ==
    IF i > Len(sizes) THEN <<>>
    ELSE [k \in 1..sizes[i] |->
             [report_name |-> ReportOrder[i], column_homogenized |-> BoundaryKeys[k]]]
         \o NestedRows(sizes, i + 1)

\* Tables whose mean overlaps lie on the merge threshold: a report of ten
\* fields of which the other reports hold the first 7, 7 and 7, or 6, 7 and
\* 8, or 7 and 7, or 7.
BoundaryTables ==
    {NestedRows(<<10, 7, 7, 7>>, 1), NestedRows(<<10, 6, 7, 8>>, 1),
     NestedRows(<<10, 7, 7>>, 1), NestedRows(<<10, 7>>, 1)}

InitRational ==
    /\ field_df \in FieldTables \cup BoundaryTables
    /\ rational_df = Unset
    /\ rstage = "called"
    /\ col_orig = Unset /\ col_norm = Unset /\ col_base = Unset
    /\ col_renorm = Unset /\ fstage = "idle"
    /\ homogenized = Unset /\ synonyms_df = Unset /\ col_homo = Unset
    /\ sstage = "idle"
    /\ dfs_by_sheetname = Unset /\ workbook = Unset /\ written = Unset
    /\ xstage = "idle"
    /\ NoRun

\* rational_df = build_report_rationalization(field_df)  (line 446)
BuildReportRationalization ==
    /\ rstage = "called"
    /\ \E compensated \in BOOLEAN :
           rational_df' = build_report_rationalization(field_df, compensated)
    /\ rstage' = "returned"
    /\ UNCHANGED <<field_df, fieldVars, synVars, xlsVars, runVars>>

NextRational == BuildReportRationalization

SpecRational == InitRational /\ [][NextRational]_vars

\* The set F of the claim: the distinct keys of report r.
FieldSet(r) ==
    {field_df[i].column_homogenized :
        i \in {j \in 1..Len(field_df) : /\ field_df[j].report_name = r
                                        /\ field_df[j].column_homogenized # NaN}}

ReportsOf == {field_df[i].report_name : i \in 1..Len(field_df)}

\* The fields of F present in exactly one report.
UniqueOf(r) ==
    {k \in FieldSet(r) : \A o \in ReportsOf \ {r} : k \notin FieldSet(o)}

RECURSIVE RatioSum(_)
\* The sum of a sequence of ratios <<n, d>>, as a ratio.
RatioSum(rs) ==
    IF rs = <<>> THEN <<0, 1>>
    ELSE LET rest == RatioSum(Tail(rs))
         IN  <<Head(rs)[1] * rest[2] + rest[1] * Head(rs)[2], Head(rs)[2] * rest[2]>>

\* The mean Jaccard similarity of r with every other report, as a ratio.
MeanJaccard(r) ==
    LET others == SortedNames(ReportsOf \ {r}, 1)
        sum == RatioSum([i \in 1..Len(others) |->
                   IF FieldSet(r) = {} /\ FieldSet(others[i]) = {} THEN <<0, 1>>
                   ELSE <<Cardinality(FieldSet(r) \cap FieldSet(others[i])),
                          Cardinality(FieldSet(r) \cup FieldSet(others[i]))>>])
    IN  IF others = <<>> THEN <<0, 1>> ELSE <<sum[1], sum[2] * Len(others)>>

UniquenessRatio(r) ==
    IF FieldSet(r) = {} THEN <<0, 1>>
    ELSE <<Cardinality(UniqueOf(r)), Cardinality(FieldSet(r))>>

\* The recommendation policy of the claim.
Policy(r) ==
    IF FieldSet(r) = {} THEN "Review"
    ELSE IF 100 * UniquenessRatio(r)[1] >= 35 * UniquenessRatio(r)[2] THEN "Keep"
    ELSE IF 100 * MeanJaccard(r)[1] >= 70 * MeanJaccard(r)[2] THEN "Merge"
    ELSE "Review"

\* The counts and the recommendation of a row are those of the claim.
RowCountsAndPolicy(row) ==
    /\ row.total_fields = Cardinality(FieldSet(row.report_name))
    /\ row.unique_fields = Cardinality(UniqueOf(row.report_name))
    /\ row.recommendation = Policy(row.report_name)

\* The number of thousandths v is one nearest to the ratio x.
NearestThousandth(v, x) ==
    /\ 2 * (v * x[2] - 1000 * x[1]) <= x[2]
    /\ 2 * (1000 * x[1] - v * x[2]) <= x[2]

\* The two reports of the "in particular" part get the stated rows.
TwoReportCases ==
    \A r1, r2 \in ReportsOf :
        r1 # r2 /\ ReportsOf = {r1, r2} /\ FieldSet(r1) # {} /\ FieldSet(r2) # {} =>
            \A i \in 1..Len(rational_df) :
                /\ FieldSet(r1) = FieldSet(r2) =>
                      /\ rational_df[i].uniqueness_ratio = 0
                      /\ rational_df[i].avg_jaccard_overlap = 1000
                      /\ rational_df[i].recommendation = "Merge"
                /\ FieldSet(r1) \cap FieldSet(r2) = {} =>
                      /\ rational_df[i].uniqueness_ratio = 1000
                      /\ rational_df[i].avg_jaccard_overlap = 0
                      /\ rational_df[i].recommendation = "Keep"

\* The scorer returned one row for each report of the table.
OneRowPerReport ==
    /\ Len(rational_df) = Cardinality(ReportsOf)
    /\ \A r \in ReportsOf : \E i \in 1..Len(rational_df) : rational_df[i].report_name = r

\* C3: the row of each report holds total = |F|, unique = the number of fields
\* of F in no other report, uniqueness_ratio = unique/total (0 if total is 0)
\* and avg_overlap = the mean Jaccard similarity with the other reports (0 if
\* none), each read to the three decimals the row shows, and the
\* recommendation of the policy on these ratios: Review if total is 0, else
\* Keep if the ratio is at least 0.35, else Merge if the overlap is at least
\* 0.70, else Review.  Two reports with identical non-empty sets get
\* 0.0 / 1.0 / Merge, two with disjoint non-empty sets 1.0 / 0.0 / Keep.
C3_PolicyOnRatios ==
    rstage = "returned" =>
        /\ OneRowPerReport
        /\ TwoReportCases
        /\ \A i \in 1..Len(rational_df) :
            LET row == rational_df[i]
            IN  /\ RowCountsAndPolicy(row)
                /\ NearestThousandth(row.uniqueness_ratio,
                                     UniquenessRatio(row.report_name))
                /\ NearestThousandth(row.avg_jaccard_overlap,
                                     MeanJaccard(row.report_name))

----------------------------------------------------------------------------
(* The writer on one mapping of sheet names to tables: SpecExcel *)

\* Bounds of the mappings.
MaxSheets == 2
MaxSuffix == 2

\* n times the character x.
Filler(n) == [i \in 1..n |-> "x"]

\* Sheet names around the limit: a filler of 30 or 31 characters and a suffix,
\* and two short names.
SheetNames ==
    {Filler(n) \o s : n \in {SheetNameLimit - 1, SheetNameLimit},
                       s \in TextsUpTo({"a", "b"}, MaxSuffix)}
        \cup {<<"q">>, <<"r">>}

Tables == {<<"h1", "v1">>, <<"h2">>}

RECURSIVE MappingsUpTo(_)
\* Every mapping of at most n distinct sheet names to tables.
MappingsUpTo(n) ==
    IF n = 0 THEN {<<>>}
    ELSE LET shorter == MappingsUpTo(n - 1)
         IN  shorter \cup
             {Append(p[1], <<p[2], p[3]>>) :
                 p \in {x \in shorter \X SheetNames \X Tables :
                           \A i \in 1..Len(x[1]) : x[1][i][1] # x[2]}}

InitExcel ==
    /\ dfs_by_sheetname \in MappingsUpTo(MaxSheets)
    /\ workbook = Unset /\ written = Unset
    /\ xstage = "called"
    /\ col_orig = Unset /\ col_norm = Unset /\ col_base = Unset
    /\ col_renorm = Unset /\ fstage = "idle"
    /\ homogenized = Unset /\ synonyms_df = Unset /\ col_homo = Unset
    /\ sstage = "idle"
    /\ field_df = Unset /\ rational_df = Unset /\ rstage = "idle"
    /\ NoRun

\* excel_bytes = df_to_excel_bytes({...})  (line 468)
DfToExcelBytes ==
    /\ xstage = "called"
    /\ workbook' = df_to_excel_bytes(dfs_by_sheetname)
    /\ written' = [i \in 1..Len(dfs_by_sheetname) |-> SafeSheet(dfs_by_sheetname[i][1])]
    /\ xstage' = IF SaveRaises(dfs_by_sheetname) THEN "raised" ELSE "returned"
    /\ UNCHANGED <<dfs_by_sheetname, fieldVars, synVars, ratVars, runVars>>

NextExcel == DfToExcelBytes

SpecExcel == InitExcel /\ [][NextExcel]_vars

\* C9: every table is written under its sheet name cut to 31 characters, and
\* for pairwise distinct sheet names the written names are pairwise distinct,
\* so that the workbook holds every table, whole, on a sheet of its own.
C9_SheetNamesStayUnique ==
    xstage = "returned" =>
        /\ \A i \in 1..Len(written) :
               /\ Len(written[i]) <= SheetNameLimit
               /\ written[i] = SubSeq(dfs_by_sheetname[i][1], 1, Len(written[i]))
        /\ \A i, j \in 1..Len(written) : i # j => written[i] # written[j]
        /\ Len(workbook) = Len(dfs_by_sheetname)
        /\ \A i \in 1..Len(dfs_by_sheetname) :
               \E j \in 1..Len(workbook) :
                   /\ workbook[j].title = written[i]
                   /\ workbook[j].cells = dfs_by_sheetname[i][2]

----------------------------------------------------------------------------
(* Analysis runs of one session: Spec.  Every click on "Analyze Reports"    *)
(* runs the script body of lines 207-483 section by section; what the      *)
(* widgets return (the inputs, the tables the two editors give back) and   *)
(* which reads raise are chosen by the environment.  synonyms_df, field_df *)
(* and rational_df are the locals of the script of these names.            *)

MaxFiles == 2

FileA ==
    [name |-> "a.csv",
     sheets |-> <<[sheet |-> "(csv)", nrows |-> 2,
                   columns |-> <<<<"P","o","l"," ","N","o">>, <<"x">>>>]>>]

FileB ==
    [name |-> "b.xlsx",
     sheets |-> <<[sheet |-> "S1", nrows |-> 1, columns |-> <<<<"c","l","a","i","m","_","n","o">>>>],
                  [sheet |-> "S2", nrows |-> 0, columns |-> <<>>]>>]

FilePool == {FileA, FileB}

\* What the uploader can return: up to MaxFiles different files, in any order.
Uploads ==
    UNION {{fs \in [1..n -> FilePool] : \A i, j \in 1..n : i # j => fs[i] # fs[j]} :
           n \in 0..MaxFiles}

\* What the source-system text input can return.
Sources == {<<"A">>, <<"B">>, <<" ">>}

\* A rule the user adds to the synonym table: ^x$ -> policy_number.
ExtraRule ==
    [enabled |-> <<"Y">>,
     pattern |-> <<Bol, Lit("x"), Eol>>,
     replacement |-> <<"p","o","l","i","c","y","_","n","u","m","b","e","r">>]

\* What the synonym editor can return for the table it is given: the table
\* itself, or the table with ExtraRule added.
SynonymEdits(df) ==
    {df}
    \cup (IF \E i \in 1..Len(df) : df[i] = ExtraRule THEN {} ELSE {Append(df, ExtraRule)})

\* What the definitions editor can return for the table it is given: the
\* table itself, or the table with its first row excluded and described anew.
DefinitionEdits(df) ==
    {df}
    \cup {[i \in 1..Len(df) |->
              IF i = 1 THEN [df[i] EXCEPT !.include_flag = <<"N">>,
                                          !.business_definition = <<"edited">>]
              ELSE df[i]]}

\* Where the reads of the files of a run can raise, file by file.
Failures(files) ==
    {ks \in [1..Len(files) -> 0..(1 + Len(FileB.sheets))] :
        \A i \in 1..Len(files) : ks[i] \in FailPoints(files[i])}

\* The variables of the specifications of one function, unused by a run.
pureVars == <<fieldVars, homogenized, col_homo, sstage, rstage, xstage>>

Init ==
    /\ session_state = <<>>
    /\ pc = "idle" /\ outcome = "none"
    /\ source_system = Unset /\ uploaded_files = Unset /\ read_fail = Unset
    /\ state_before = Unset /\ profile_df = Unset /\ defs_reset = FALSE
    /\ defs_shown = Unset /\ edited_definitions = Unset
    /\ synonyms_df = Unset /\ field_df = Unset /\ rational_df = Unset
    /\ col_orig = Unset /\ col_norm = Unset /\ col_base = Unset /\ col_renorm = Unset
    /\ fstage = "idle"
    /\ homogenized = Unset /\ col_homo = Unset /\ sstage = "idle" /\ rstage = "idle"
    /\ dfs_by_sheetname = Unset /\ workbook = Unset /\ written = Unset
    /\ xstage = "idle"

\* The button is clicked  (lines 194-216): the inputs are read and checked.
ClickAnalyze ==
    /\ pc = "idle"
    /\ \E src \in Sources, files \in Uploads :
        /\ source_system' = src
        /\ uploaded_files' = files
        /\ IF files = <<>>
           THEN pc' = "idle" /\ outcome' = "no_files"
           ELSE IF Strip(src, Whitespace) = <<>>
                THEN pc' = "idle" /\ outcome' = "no_source"
                ELSE pc' = "synonyms" /\ outcome' = "running"
    /\ state_before' = session_state
    /\ read_fail' = [profile |-> Unset, inventory |-> Unset]
    /\ synonyms_df' = Unset /\ profile_df' = Unset /\ field_df' = Unset
    /\ rational_df' = Unset /\ defs_reset' = FALSE /\ defs_shown' = Unset
    /\ edited_definitions' = Unset
    /\ dfs_by_sheetname' = Unset /\ workbook' = Unset /\ written' = Unset
    /\ UNCHANGED <<session_state, pureVars>>

\* The synonym table  (lines 227-251): seeded on first use, edited, stored.
SynonymRules ==
    /\ pc = "synonyms"
    /\ LET seeded == IF "synonyms_df" \in DOMAIN session_state THEN session_state
                     ELSE SetKey(session_state, "synonyms_df", SeedSynonyms)
       IN  \E edited \in SynonymEdits(seeded["synonyms_df"]) :
               /\ synonyms_df' = edited
               /\ session_state' = SetKey(seeded, "synonyms_df", edited)
    /\ pc' = "profiling"
    /\ UNCHANGED <<outcome, source_system, uploaded_files, read_fail, state_before,
                   profile_df, defs_reset, defs_shown, edited_definitions,
                   field_df, rational_df, dfs_by_sheetname, workbook, written,
                   pureVars>>

\* Quick profiling  (lines 266-291).
QuickProfiling ==
    /\ pc = "profiling"
    /\ \E ks \in Failures(uploaded_files) :
        /\ read_fail' = [read_fail EXCEPT !.profile = ks]
        /\ profile_df' = ProfileRows(uploaded_files, ks, 1)
    /\ pc' = "inventory"
    /\ UNCHANGED <<session_state, outcome, source_system, uploaded_files, state_before,
                   defs_reset, defs_shown, edited_definitions,
                   synonyms_df, field_df, rational_df, dfs_by_sheetname, workbook, written,
                   pureVars>>

\* The field inventory  (lines 300-345); the run stops when it is empty.
FieldInventory ==
    /\ pc = "inventory"
    /\ \E ks \in Failures(uploaded_files) :
        /\ read_fail' = [read_fail EXCEPT !.inventory = ks]
        /\ field_df' = FieldRows(uploaded_files, ks, source_system, synonyms_df, 1)
    /\ IF field_df' = <<>>
       THEN pc' = "idle" /\ outcome' = "no_fields"
       ELSE pc' = "definitions" /\ UNCHANGED outcome
    /\ UNCHANGED <<session_state, source_system, uploaded_files, state_before,
                   profile_df, defs_reset, defs_shown, edited_definitions,
                   synonyms_df, rational_df, dfs_by_sheetname, workbook, written,
                   pureVars>>

\* The business definitions  (lines 353-398): reset or kept, edited, stored
\* and joined to the field inventory.
BusinessDefinitions ==
    /\ pc = "definitions"
    /\ LET reset == NeedsReset(session_state, source_system)
           shown == IF reset
                    THEN SetKey(SetKey(session_state, "definitions_df",
                                       FreshDefinitions(field_df)),
                                "definitions_source", source_system)
                    ELSE session_state
       IN  /\ defs_reset' = reset
           /\ defs_shown' = shown["definitions_df"]
           /\ \E edited \in DefinitionEdits(shown["definitions_df"]) :
                 /\ edited_definitions' = edited
                 /\ session_state' = SetKey(shown, "definitions_df", edited)
                 /\ field_df' = Merge(field_df, edited, 1)
    /\ pc' = "scoring"
    /\ UNCHANGED <<outcome, source_system, uploaded_files, read_fail, state_before,
                   profile_df, synonyms_df, rational_df, dfs_by_sheetname, workbook, written,
                   pureVars>>

\* The rationalisation scoring  (line 446).
Rationalise ==
    /\ pc = "scoring"
    /\ \E compensated \in BOOLEAN :
           rational_df' = build_report_rationalization(field_df, compensated)
    /\ pc' = "export"
    /\ UNCHANGED <<session_state, outcome, source_system, uploaded_files, read_fail,
                   state_before, profile_df, defs_reset, defs_shown,
                   edited_definitions, synonyms_df, field_df,
                   dfs_by_sheetname, workbook, written, pureVars>>

\* The download of the output  (lines 448-483): the checkbox is read and the
\* workbook written, which ends the run.
DownloadOutput ==
    /\ pc = "export"
    /\ \E export_only_included \in BOOLEAN :
        LET sheets == ExportSheets(profile_df, synonyms_df, field_df,
                                   edited_definitions, rational_df,
                                   export_only_included)
        IN  /\ dfs_by_sheetname' = sheets
            /\ workbook' = df_to_excel_bytes(sheets)
            /\ written' = [i \in 1..Len(sheets) |-> SafeSheet(sheets[i][1])]
    /\ pc' = "idle" /\ outcome' = "done"
    /\ UNCHANGED <<session_state, source_system, uploaded_files, read_fail,
                   state_before, profile_df, defs_reset, defs_shown,
                   edited_definitions, synonyms_df, field_df, rational_df, pureVars>>

Next ==
    \/ ClickAnalyze
    \/ SynonymRules
    \/ QuickProfiling
    \/ FieldInventory
    \/ BusinessDefinitions
    \/ Rationalise
    \/ DownloadOutput

Spec == Init /\ [][Next]_vars

----------------------------------------------------------------------------
(* Properties of the analysis runs *)

\* A run that passed the input checks has come to its end.
RunEnded == pc = "idle" /\ outcome \in {"done", "no_fields"}

\* A run has gone through every section.
RunDone == pc = "idle" /\ outcome = "done"

\* The keys of a definition table, row by row.
KeysOf(defs) == [i \in 1..Len(defs) |-> defs[i].column_homogenized]

\* C5: at the end of every run that extracts at least one field, whatever
\* the runs before it, the business-definition table of the session holds
\* exactly one row per distinct homogenized field of the field inventory of
\* the run, and the join gives every field occurrence an inclusion flag and a
\* definition.
C5_OneDefinitionPerField ==
    RunDone =>
        /\ KeysOf(session_state["definitions_df"]) = DistinctFields(field_df)
        /\ \A i \in 1..Len(field_df) :
               /\ field_df[i].include_flag # NaN
               /\ field_df[i].business_definition # NaN

\* The source system differs from the one recorded at the last
\* initialization of the definition table, or the session had no table, when
\* the run began.
SourceChanged ==
    \/ "definitions_df" \notin DOMAIN state_before
    \/ "definitions_source" \notin DOMAIN state_before
    \/ state_before["definitions_source"] # source_system

\* The table the run works on is a new one: a row per distinct field of the
\* inventory, every flag Y, every definition the one the lookup suggests.
Reinitialized ==
    /\ defs_reset
    /\ KeysOf(defs_shown) = DistinctFields(field_df)
    /\ \A i \in 1..Len(defs_shown) :
           /\ defs_shown[i].include_flag = <<"Y">>
           /\ defs_shown[i].business_definition
                  = SuggestedDefinition(defs_shown[i].column_homogenized)

\* The table the run works on is the one the session held when the run began.
Preserved ==
    /\ ~defs_reset
    /\ "definitions_df" \in DOMAIN state_before
    /\ defs_shown = state_before["definitions_df"]

\* The run left the table and the recorded source system as they were.
Untouched ==
    /\ ~defs_reset
    /\ \A k \in {"definitions_df", "definitions_source"} :
           /\ k \in DOMAIN session_state <=> k \in DOMAIN state_before
           /\ k \in DOMAIN session_state => session_state[k] = state_before[k]

\* C6 as stated: in every analysis run the definition table is re-initialized
\* exactly when the source system changed or no table exists yet, and is
\* preserved otherwise.
C6_ResetExactlyOnSourceChange ==
    RunEnded =>
        IF SourceChanged THEN Reinitialized
        ELSE IF outcome = "done" THEN Preserved ELSE Untouched

\* C6: in a run that extracts at least one field the definition table is
\* re-initialized (flags Y, definitions from the lookup) exactly when the
\* source system differs from the recorded one or no table exists yet, and is
\* otherwise the table the session held, edits included; a run that stops
\* earlier leaves the table and the recorded source system untouched.
C6_ResetInRunsWithFields ==
    /\ RunDone => IF SourceChanged THEN Reinitialized ELSE Preserved
    /\ (pc = "idle" /\ outcome \in {"no_files", "no_source", "no_fields"})
           => Untouched

\* A run re-initialized the table because the source system changed, the
\* session holding a table with an edited row from an earlier run.
C6_Witness ==
    /\ RunDone
    /\ defs_reset
    /\ "definitions_df" \in DOMAIN state_before
    /\ state_before["definitions_source"] # source_system
    /\ state_before["definitions_df"][1].include_flag = <<"N">>
    /\ defs_shown[1].include_flag = <<"Y">>

\* The rows of a table that come from the file called name.
RowsOfFile(df, name) == SelectSeq(df, LAMBDA row : row.file_name = name)

RECURSIVE ColumnCount(_, _)
\* The number of columns in the sheets of a file from sheet j on.
ColumnCount(f, j) ==
    IF j > Len(f.sheets) THEN 0
    ELSE Len(f.sheets[j].columns) + ColumnCount(f, j + 1)

\* C7: in a run over several files a file whose read fails (a workbook whose
\* later sheet is unreadable included) contributes no row to the profiling
\* summary nor to the field inventory, and every other file contributes all
\* of its rows.
C7_FailedFileContributesNothing ==
    (RunEnded /\ Len(uploaded_files) > 1) =>
        \A k \in 1..Len(uploaded_files) :
            LET f == uploaded_files[k]
            IN  /\ Len(RowsOfFile(profile_df, f.name))
                       = IF read_fail.profile[k] # 0 THEN 0 ELSE Len(f.sheets)
                /\ Len(RowsOfFile(field_df, f.name))
                       = IF read_fail.inventory[k] # 0 THEN 0 ELSE ColumnCount(f, 1)

\* C8: the rationalization output has a row for every report of the run, and
\* a report with no columns, analysed with reports that have some, gets a row
\* with total_fields 0, uniqueness_ratio 0.0 and recommendation Review.
C8_EveryReportHasARow ==
    RunDone =>
        \A k \in 1..Len(uploaded_files) :
            LET f == uploaded_files[k]
                sheets == SheetsRead(f, read_fail.inventory[k])
            IN  \A j \in 1..Len(sheets) :
                    \E i \in 1..Len(rational_df) :
                        /\ rational_df[i].report_name
                               = ReportLabel(f.name, sheets[j].sheet)
                        /\ sheets[j].columns = <<>> =>
                               /\ rational_df[i].total_fields = 0
                               /\ rational_df[i].uniqueness_ratio = 0
                               /\ rational_df[i].recommendation = "Review"

============================================================================
